---- MODULE Spec2Model ----
(***************************************************************************)
(* CVAT -> DeepLabCut conversion pipeline (cvat_to_deeplabcut_pipeline.py) *)
(* and its GUI driver (cvat_dlc_gui.py), as a state machine.               *)
(*                                                                         *)
(* Conventions                                                             *)
(*  - A keypoint name / track label is the sequence of its character codes *)
(*    so that Python's sorted() on strings is the lexicographic order on   *)
(*    these sequences.                                                     *)
(*  - A coordinate is kept in half-pixel units (float v is stored as 2*v), *)
(*    which makes the box midpoint (a + b) / 2 exact on integer inputs.    *)
(*  - File names are real strings built the way the f-strings build them.  *)
(***************************************************************************)
EXTENDS Integers, Sequences, FiniteSets, TLC

VARIABLES
    mode,            \* "cli" (run_pipeline) or "gui" (CVATDLCGui)
    xml,             \* the CVAT export handed to the run
    pc,              \* position of the run in the stage sequence
    result,          \* outcome of the run
    annotations,     \* self.annotations : frame -> (bodypart -> <<x, y>>)
    bodyparts,       \* self.bodyparts   : sorted list of keypoint names
    video_info,      \* self.video_info
    frame_selection, \* self.frame_selection
    frame_range,     \* self.frame_range = <<start, end>>
    gui,             \* the GUI form and widgets
    extraction,      \* what the last extract_frames call did
    frame_files,     \* frame images present in labeled-data/<video>/
    csv_file,        \* content of CollectedData_<scorer>.csv, or NoFile
    config_file,     \* content of config.yaml, or NoFile
    artifacts,       \* the other artifacts present in the project tree
    previous,        \* what the previous run on this output directory did
    builtins_input,  \* builtins.input of the pipeline and h5_converter processes
    log              \* the GUI's log queue, log widget and queue poller

vars == <<mode, xml, pc, result, annotations, bodyparts, video_info,
          frame_selection, frame_range, gui, extraction, frame_files,
          csv_file, config_file, artifacts, previous, builtins_input, log>>

----------------------------------------------------------------------------
(* Bounds of the model *)

\* a video holds, and the decoder yields, at most this many frames
MaxFrames == 3
\* an export holds at most this many tracks
MaxTracks == 2

----------------------------------------------------------------------------
(* Strings, names and their order *)

Queen  == <<81, 117, 101, 101, 110>>
Worker == <<87, 111, 114, 107, 101, 114>>
\* "_center"
CenterSuffix == <<95, 99, 101, 110, 116, 101, 114>>

Labels == {Queen, Worker}

\* a < b for Python strings: first differing code point decides, a proper
\* prefix is smaller
RECURSIVE StrLess(_, _)
StrLess(a, b) ==
    IF b = <<>> THEN FALSE
    ELSE IF a = <<>> THEN TRUE
    ELSE IF Head(a) # Head(b) THEN Head(a) < Head(b)
    ELSE StrLess(Tail(a), Tail(b))

\* sorted(..., reverse=True)
RECURSIVE sorted_reversed(_)
sorted_reversed(s) ==
    IF s = {} THEN <<>>
    ELSE LET m == CHOOSE a \in s : \A b \in s \ {a} : StrLess(b, a)
         IN  <<m>> \o sorted_reversed(s \ {m})

\* sorted(list(s)) of a set of strings
RECURSIVE sorted(_)
sorted(s) ==
    IF s = {} THEN <<>>
    ELSE LET m == CHOOSE a \in s : \A b \in s \ {a} : StrLess(a, b)
         IN  <<m>> \o sorted(s \ {m})

Range(f) == {f[i] : i \in DOMAIN f}

SeqUpTo(S, n) == UNION {[1..k -> S] : k \in 0..n}

DigitChar == <<"0", "1", "2", "3", "4", "5", "6", "7", "8", "9">>

RECURSIVE Decimal(_)
Decimal(n) ==
    IF n < 10 THEN DigitChar[n + 1]
    ELSE Decimal(n \div 10) \o DigitChar[(n % 10) + 1]

RECURSIVE ZeroFill(_, _)
ZeroFill(s, width) == IF Len(s) >= width THEN s ELSE ZeroFill("0" \o s, width)

\* format(n, "04d"): sign first, then zeros up to a total width of 4
Format04d(n) ==
    IF n >= 0 THEN ZeroFill(Decimal(n), 4)
    ELSE "-" \o ZeroFill(Decimal(-n), 3)

----------------------------------------------------------------------------
(* The CVAT export *)

\* no <meta><job> block
NoMeta == <<>>

\* <box frame xtl ytl xbr ybr>, on one of the given frames
BoxRecords(frames) ==
    [frame : frames, xtl : {1}, ytl : {2}, xbr : {4}, ybr : {8}]

\* the points attribute after split(','): no component (empty or absent
\* attribute), one component, a pair, a pair followed by more
PointsAttrs == {<<>>, <<12>>, <<12, 8>>, <<12, 8, 7>>}

\* <points frame points="...">
PointsRecords(frames, attrs) == [frame : frames, points : attrs]

NoShape == <<>>

\* a track holds at most one box and at most one points element
Tracks(frames) ==
    [label  : Labels,
     box    : {NoShape} \cup {<<b>> : b \in BoxRecords(frames)},
     points : {NoShape} \cup {<<p>> : p \in PointsRecords(frames, PointsAttrs)}]

\* <meta><job><size>: absent, or a count that differs from every probed one
MetaSizes == {NoMeta, <<MaxFrames + 1>>}

\* ET.ParseError and FileNotFoundError
BrokenExports ==
    {[status |-> "malformed", size |-> NoMeta, tracks |-> <<>>],
     [status |-> "missing", size |-> NoMeta, tracks |-> <<>>]}

\* parse_cvat_xml only compares frame numbers for equality: two of them give
\* every same-frame / other-frame pattern between two shapes
ParseFrames == 0..1

Exports ==
    [status : {"ok"}, size : MetaSizes,
     tracks : SeqUpTo(Tracks(ParseFrames), MaxTracks)]
    \cup BrokenExports

\* the tracks of the full runs: single-shape tracks as CVAT writes them, on
\* any frame a video can hold, Queen annotated by boxes and Worker by points
\* whose attribute is empty or one pair
RunFrames == 0..(MaxFrames - 1)

RunTracks ==
    [label : {Queen}, box : {<<b>> : b \in BoxRecords(RunFrames)},
     points : {NoShape}]
    \cup
    [label : {Worker}, box : {NoShape},
     points : {<<p>> : p \in PointsRecords(RunFrames, {<<>>, <<12, 8>>})}]

RunExports ==
    [status : {"ok"}, size : MetaSizes \ {NoMeta},
     tracks : SeqUpTo(RunTracks, MaxTracks)]
    \cup BrokenExports

----------------------------------------------------------------------------
(* parse_cvat_xml *)

\* float(text) of an integer-valued text, in half-pixel units
Float(v) == 2 * v

Put(dict, key, value) ==
    [k \in (DOMAIN dict) \cup {key} |-> IF k = key THEN value ELSE dict[k]]

EmptyDict == [k \in {} |-> 0]

\* self.annotations[frame_num] = {} without the membership test
EnsureFrame_reset(ann, frame_num) == Put(ann, frame_num, EmptyDict)

\* if frame_num not in self.annotations: self.annotations[frame_num] = {}
EnsureFrame(ann, frame_num) ==
    IF frame_num \in DOMAIN ann THEN ann ELSE Put(ann, frame_num, EmptyDict)

BoxName(label) == label \o CenterSuffix

\* state threaded through the loops: [ann, names]
ParseBox(st, label, box) ==
    LET ann      == EnsureFrame(st.ann, box.frame)
        center_x == (Float(box.xtl) + Float(box.xbr)) \div 2
        center_y == (Float(box.ytl) + Float(box.ybr)) \div 2
        bodypart_name == BoxName(label)
    IN  [ann   |-> Put(ann, box.frame,
                       Put(ann[box.frame], bodypart_name,
                           <<center_x, center_y>>)),
         names |-> st.names \cup {bodypart_name}]

ParsePoints(st, label, point) ==
    LET ann    == EnsureFrame(st.ann, point.frame)
        coords == point.points
    IN  IF coords # <<>> /\ Len(coords) >= 2
        THEN [ann   |-> Put(ann, point.frame,
                            Put(ann[point.frame], label,
                                <<Float(coords[1]), Float(coords[2])>>)),
              names |-> st.names \cup {label}]
        ELSE [ann |-> ann, names |-> st.names]

RECURSIVE ParseBoxes(_, _, _)
ParseBoxes(st, label, boxes) ==
    IF boxes = <<>> THEN st
    ELSE ParseBoxes(ParseBox(st, label, Head(boxes)), label, Tail(boxes))

RECURSIVE ParsePointsList(_, _, _)
ParsePointsList(st, label, points) ==
    IF points = <<>> THEN st
    ELSE ParsePointsList(ParsePoints(st, label, Head(points)), label,
                         Tail(points))

ParseTrack(st, track) ==
    ParsePointsList(ParseBoxes(st, track.label, track.box),
                    track.label, track.points)

RECURSIVE ParseTracks(_, _)
ParseTracks(st, tracks) ==
    IF tracks = <<>> THEN st
    ELSE ParseTracks(ParseTrack(st, Head(tracks)), Tail(tracks))

ParsedExport(export) ==
    ParseTracks([ann |-> EmptyDict, names |-> {}], export.tracks)

----------------------------------------------------------------------------
(* The run: run_pipeline, or start_conversion / run_conversion in the GUI *)

NoFile == <<>>

\* no run before this one
NoRun == <<>>

\* builtins.input: the interpreter's own, or auto_yes_input
original_input == "input"
auto_yes_input == "auto_yes_input"

\* the log queue is empty, nothing is displayed, the poller waits for its
\* timer and holds no message; sent is the history of what log_message was
\* called with
NoLog ==
    [queue |-> <<>>, text |-> <<>>, sent |-> <<>>, poller |-> "waiting",
     message |-> ""]

\* datetime.now().strftime("%b%d") on the days a run can happen
Dates == {"Nov06", "Nov07"}

\* open(path, 'a'): the content is added to what the file holds
WriteFile_append(old, content) == old \o content

\* open(path, 'w'): the file is truncated, then holds what is written
WriteFile(old, content) == content

VideoStem == "video"
VideoName == "video.mp4"
Scorer    == "manual"

NoExtraction ==
    [ran |-> FALSE, success |-> FALSE, decoded |-> 0, reads |-> 0,
     extracted_count |-> 0, written |-> {}, lost |-> {}]

InitWith(exports, modes) ==
    /\ mode \in modes
    /\ xml \in exports
    /\ pc = IF mode = "cli" THEN "parse" ELSE "idle"
    /\ result = "none"
    /\ annotations = EmptyDict
    /\ bodyparts = <<>>
    /\ video_info = EmptyDict
    /\ frame_selection = "full"
    /\ frame_range = <<0, -1>>
    /\ gui = [threads |-> 0,
              frame_selection |-> "full", start_frame |-> 0, end_frame |-> 0,
              convert_button |-> "normal", status |-> "Ready"]
    /\ extraction = NoExtraction
    /\ frame_files = {}
    /\ csv_file = NoFile
    /\ config_file = NoFile
    /\ artifacts = {}
    /\ previous = NoRun
    /\ builtins_input = [pipeline |-> original_input,
                         h5_converter |-> original_input]
    /\ log = NoLog

\* the stage run_pipeline and run_conversion call after a stage succeeded
NextStage ==
    [parse |-> "probe", probe |-> "select", select |-> "extract",
     range |-> "extract", extract |-> "csv", csv |-> "config",
     config |-> "copy", copy |-> "h5", h5 |-> "summary",
     h5_patched |-> "summary", h5_batch |-> "summary"]

\* a stage returned False and the caller only logs it
StageFailed_logged ==
    /\ result' = "failed"
    /\ pc' = NextStage[pc]

\* a stage returned False: run_pipeline returns False; run_conversion calls
\* conversion_completed(False) and returns
StageFailed ==
    /\ result' = "failed"
    /\ pc' = IF mode = "gui" THEN "completing" ELSE "done"

\* a stage raised: nothing catches it in run_pipeline; run_conversion's
\* except clause calls conversion_completed(False)
StageRaised ==
    /\ result' = IF mode = "gui" THEN "failed" ELSE "raised"
    /\ pc' = IF mode = "gui" THEN "completing" ELSE "done"

\* a parse that gives up after it has begun to fill the object
ParseFailed_partial(self) ==
    [self EXCEPT !.video_info = Put(EmptyDict, "total_frames", 0)]

\* ET.parse raises ET.ParseError or FileNotFoundError at the first statement
\* of the try block: the except clauses print and return False, and no
\* attribute of self has been assigned
ParseFailed(self) == self

parse_cvat_xml ==
    /\ pc = "parse"
    /\ IF xml.status # "ok"
       THEN LET self == ParseFailed([annotations |-> annotations,
                                     bodyparts |-> bodyparts,
                                     video_info |-> video_info])
            IN  /\ StageFailed
                /\ annotations' = self.annotations
                /\ bodyparts' = self.bodyparts
                /\ video_info' = self.video_info
       ELSE LET parsed == ParsedExport(xml)
            IN  /\ video_info' =
                       IF xml.size # NoMeta
                       THEN Put(EmptyDict, "total_frames", xml.size[1])
                       ELSE video_info
                /\ annotations' = parsed.ann
                /\ bodyparts' = sorted(parsed.names)
                /\ pc' = "probe"
                /\ UNCHANGED result
    /\ UNCHANGED <<log, builtins_input, previous, mode, xml, frame_selection, frame_range, gui, extraction,
                   frame_files, csv_file, config_file, artifacts>>

\* opened: cap.isOpened(); total_frames: CAP_PROP_FRAME_COUNT as reported
get_video_info ==
    /\ pc = "probe"
    /\ \E opened \in BOOLEAN, total_frames \in 0..MaxFrames :
          IF ~opened
          THEN /\ total_frames = 0
               /\ StageFailed
               /\ UNCHANGED video_info
          ELSE /\ video_info' = Put(Put(video_info, "total_frames",
                                        total_frames),
                                    "video_file", VideoName)
               /\ pc' = "select"
               /\ UNCHANGED result
    /\ UNCHANGED <<log, builtins_input, previous, mode, xml, annotations, bodyparts, frame_selection,
                   frame_range, gui, extraction, frame_files, csv_file,
                   config_file, artifacts>>

\* the interactive prompt's input() values: a decimal integer or other text
PromptNumbers == [numeric : {TRUE}, value : (-1)..(MaxFrames + 1)]
PromptInputs == PromptNumbers \cup {[numeric |-> FALSE, value |-> 0]}

\* interactive_frame_selection, outer loop: one input() of the menu choice
prompt_choice ==
    /\ mode = "cli"
    /\ pc = "select"
    /\ \E choice \in {"1", "2", "other"} :
          CASE choice = "1" ->
                 /\ frame_selection' = "full"
                 /\ frame_range' = <<0, video_info["total_frames"] - 1>>
                 /\ pc' = "extract"
            [] choice = "2" ->
                 /\ frame_selection' = "range"
                 /\ pc' = "range"
                 /\ UNCHANGED frame_range
            [] OTHER ->
                 UNCHANGED <<frame_selection, frame_range, pc>>
    /\ UNCHANGED <<log, builtins_input, previous, mode, xml, result, annotations, bodyparts, video_info, gui,
                   extraction, frame_files, csv_file, config_file, artifacts>>

\* interactive_frame_selection, inner loop: one pass of the two bound prompts
prompt_range ==
    /\ mode = "cli"
    /\ pc = "range"
    /\ \E start_in \in PromptInputs, end_in \in PromptInputs :
          LET max_frame == video_info["total_frames"] - 1
              start == start_in.value
              end == end_in.value
          IN  IF /\ start_in.numeric
                 /\ end_in.numeric
                 /\ 0 <= start /\ start <= end /\ end <= max_frame
              THEN /\ frame_range' = <<start, end>>
                   /\ pc' = "extract"
              ELSE UNCHANGED <<frame_range, pc>>
    /\ UNCHANGED <<log, builtins_input, previous, mode, xml, result, annotations, bodyparts, video_info,
                   frame_selection, gui, extraction, frame_files, csv_file,
                   config_file, artifacts>>

interactive_frame_selection == prompt_choice \/ prompt_range

\* the entries of the GUI form
FormFrames == (-1)..(MaxFrames + 1)

\* validate_inputs, the frame range part (the file checks pass)
validate_inputs(form) ==
    IF form.frame_selection = "range"
    THEN ~(form.start_frame < 0 \/ form.end_frame < form.start_frame)
    ELSE TRUE

\* the convert button left as it is
DisableButton_skipped(widgets) == widgets

\* self.convert_button.config(state='disabled'), status "Converting..."
DisableButton(widgets) ==
    [widgets EXCEPT !.convert_button = "disabled", !.status = "Converting..."]

\* the user fills the form and presses the convert button: Tk calls the
\* command of a button in state normal only. gui.threads counts the
\* threading.Thread(target=self.run_conversion).start() calls; pc is the
\* position of the worker started last. One conversion is followed to its
\* end: the button is not pressed again once pc = "done".
start_conversion ==
    /\ mode = "gui"
    /\ pc # "done"
    /\ gui.convert_button = "normal"
    /\ \E selection \in {"full", "range"},
          start \in FormFrames, end \in FormFrames :
          LET form == [gui EXCEPT !.frame_selection = selection,
                                  !.start_frame = start,
                                  !.end_frame = end]
          IN  /\ selection = "full" => (start = 0 /\ end = 0)
              /\ IF validate_inputs(form)
                 THEN /\ gui' = [DisableButton(form) EXCEPT !.threads = @ + 1]
                      \* self.log_text.delete(1.0, tk.END)
                      /\ log' = [log EXCEPT !.text = <<>>]
                      /\ pc' = "parse"
                 ELSE /\ gui' = form
                      /\ pc' = "idle"
                      /\ UNCHANGED log
    /\ UNCHANGED <<builtins_input, previous, mode, xml, result, annotations, bodyparts, video_info,
                   frame_selection, frame_range, extraction, frame_files,
                   csv_file, config_file, artifacts>>

\* run_conversion, "Set frame selection" and "Create output directory";
\* makedirs_ok: os.makedirs(output_dir, exist_ok=True) does not raise
set_frame_selection ==
    /\ mode = "gui"
    /\ pc = "select"
    /\ IF gui.frame_selection = "range"
       THEN /\ frame_selection' = "range"
            /\ frame_range' = <<gui.start_frame, gui.end_frame>>
       ELSE /\ frame_selection' = "full"
            /\ frame_range' = <<0, video_info["total_frames"] - 1>>
    /\ \E makedirs_ok \in BOOLEAN :
          IF makedirs_ok
          THEN pc' = "extract" /\ UNCHANGED result
          ELSE StageRaised
    /\ UNCHANGED <<log, builtins_input, previous, mode, xml, annotations, bodyparts, video_info, gui,
                   extraction, frame_files, csv_file, config_file, artifacts>>

----------------------------------------------------------------------------
(* extract_frames *)

\* frame_filename = f"frame_{frame_count:04d}.png"
frame_filename(frame_count) == "frame_" \o Format04d(frame_count) \o ".png"

\* cv2.imwrite: the image is stored, or imwrite returns False and stores
\* nothing, or it raises cv2.error; lost = the frames it did not store
WriteOutcomes == {"stored", "false", "raise"}

\* the while loop; st = [frame_count, extracted_count, reads, written, lost,
\* raised], decodable = number of frames cap.read() yields before ret is
\* False, io[i] = what cv2.imwrite does for frame i
RECURSIVE ExtractLoop(_, _, _, _, _)
ExtractLoop(st, start_frame, end_frame, decodable, io) ==
    IF st.frame_count >= decodable THEN st
    ELSE LET fc == st.frame_count
             in_window == start_frame <= fc /\ fc <= end_frame
             read == [st EXCEPT !.reads = @ + 1]
         IN  IF in_window /\ io[fc] = "raise"
             THEN [read EXCEPT !.raised = TRUE,
                               !.lost = @ \cup {frame_filename(fc)}]
             ELSE LET st1 ==
                        [read EXCEPT
                           !.written = IF in_window /\ io[fc] = "stored"
                                       THEN @ \cup {frame_filename(fc)}
                                       ELSE @,
                           !.lost = IF in_window /\ io[fc] = "false"
                                    THEN @ \cup {frame_filename(fc)}
                                    ELSE @,
                           !.extracted_count = IF in_window THEN @ + 1 ELSE @,
                           !.frame_count = fc + 1]
                  IN  IF st1.frame_count > end_frame THEN st1
                      ELSE ExtractLoop(st1, start_frame, end_frame,
                                       decodable, io)

\* the frames directory emptied before the images are written
FramesAfter_cleared(files, written) == written

\* cv2.imwrite adds a file to the frames directory or overwrites one
FramesAfter(files, written) == files \cup written

ExtractStart ==
    [frame_count |-> 0, extracted_count |-> 0, reads |-> 0, written |-> {},
     lost |-> {}, raised |-> FALSE]

\* mkdir_ok: frames_dir.mkdir(...) does not raise (it is outside the try);
\* opened: cap.isOpened()
extract_frames ==
    /\ pc = "extract"
    /\ \E mkdir_ok \in BOOLEAN, opened \in BOOLEAN, decodable \in 0..MaxFrames,
          io \in [0..(MaxFrames - 1) -> WriteOutcomes] :
          IF ~mkdir_ok
          THEN /\ ~opened /\ decodable = 0 /\ \A i \in DOMAIN io : io[i] = "stored"
               /\ StageRaised
               /\ UNCHANGED <<extraction, frame_files>>
          ELSE IF ~opened
          THEN /\ decodable = 0 /\ \A i \in DOMAIN io : io[i] = "stored"
               /\ extraction' = [NoExtraction EXCEPT !.ran = TRUE]
               /\ StageFailed
               /\ UNCHANGED frame_files
          ELSE LET end == ExtractLoop(ExtractStart, frame_range[1],
                                      frame_range[2], decodable, io)
               IN  /\ \A i \in DOMAIN io :
                         \* imwrite is called for decoded in-window frames only
                         (io[i] # "stored") =>
                             /\ i < end.reads
                             /\ frame_range[1] <= i /\ i <= frame_range[2]
                   /\ extraction' =
                          [ran |-> TRUE, success |-> ~end.raised,
                           decoded |-> decodable, reads |-> end.reads,
                           extracted_count |-> end.extracted_count,
                           written |-> end.written, lost |-> end.lost]
                   /\ frame_files' = FramesAfter(frame_files, end.written)
                   /\ IF end.raised
                      THEN StageFailed
                      ELSE pc' = "csv" /\ UNCHANGED result
    /\ UNCHANGED <<log, builtins_input, previous, mode, xml, annotations, bodyparts, video_info,
                   frame_selection, frame_range, gui, csv_file, config_file,
                   artifacts>>

----------------------------------------------------------------------------
(* create_deeplabcut_csv *)

\* the characters the labels are made of
Chr ==
    [c \in {81, 117, 101, 110, 87, 111, 114, 107, 95, 99, 116} |->
        CASE c = 81 -> "Q" [] c = 117 -> "u" [] c = 101 -> "e"
          [] c = 110 -> "n" [] c = 87 -> "W" [] c = 111 -> "o"
          [] c = 114 -> "r" [] c = 107 -> "k" [] c = 95 -> "_"
          [] c = 99 -> "c" [] c = 116 -> "t"]

\* a name as the text csv.writer and f.write put in a file
RECURSIVE Text(_)
Text(name) == IF name = <<>> THEN "" ELSE Chr[Head(name)] \o Text(Tail(name))

\* str(v) of a non-negative float kept in half-pixel units
FloatText(h) == Decimal(h \div 2) \o (IF h % 2 = 0 THEN ".0" ELSE ".5")

\* str(np.nan)
NanText == "nan"

\* sorted(keys) of a set of frame numbers
RECURSIVE SortedFrames(_)
SortedFrames(s) ==
    IF s = {} THEN <<>>
    ELSE LET m == CHOOSE a \in s : \A b \in s : a <= b
         IN  <<m>> \o SortedFrames(s \ {m})

\* valid_frames: the keys of self.annotations inside the window, ascending
valid_frames(ann, start_frame, end_frame) ==
    SortedFrames({f \in DOMAIN ann : start_frame <= f /\ f <= end_frame})

RECURSIVE Repeat(_, _)
Repeat(cells, n) == IF n = 0 THEN <<>> ELSE cells \o Repeat(cells, n - 1)

scorer_row(scorer, parts) ==
    <<"scorer", "", "">> \o Repeat(<<scorer>>, Len(parts) * 2)

\* bodyparts_row.extend([bodypart, bodypart]) for each bodypart
RECURSIVE ExtendTwice(_)
ExtendTwice(parts) ==
    IF parts = <<>> THEN <<>>
    ELSE <<Text(Head(parts)), Text(Head(parts))>> \o ExtendTwice(Tail(parts))

\* bodyparts_row.append(bodypart) for each bodypart
bodyparts_row_once(parts) ==
    <<"bodyparts", "", "">> \o [i \in DOMAIN parts |-> Text(parts[i])]

bodyparts_row(parts) == <<"bodyparts", "", "">> \o ExtendTwice(parts)

coords_row(parts) == <<"coords", "", "">> \o Repeat(<<"x", "y">>, Len(parts))

\* image_name = f"frame_{frame_num:04d}.png"
image_name(frame_num) == "frame_" \o Format04d(frame_num) \o ".png"

\* the two cells of one bodypart, with 0.0 for an unannotated point
bodypart_cells_zero(frame_annotations, bodypart) ==
    IF bodypart \in DOMAIN frame_annotations
    THEN <<FloatText(frame_annotations[bodypart][1]),
           FloatText(frame_annotations[bodypart][2])>>
    ELSE <<"0.0", "0.0">>

\* the two cells of one bodypart in a data row
bodypart_cells(frame_annotations, bodypart) ==
    IF bodypart \in DOMAIN frame_annotations
    THEN <<FloatText(frame_annotations[bodypart][1]),
           FloatText(frame_annotations[bodypart][2])>>
    ELSE <<NanText, NanText>>

\* for bodypart in self.bodyparts: row.extend(...)
RECURSIVE ExtendCells(_, _)
ExtendCells(frame_annotations, parts) ==
    IF parts = <<>> THEN <<>>
    ELSE bodypart_cells(frame_annotations, Head(parts))
             \o ExtendCells(frame_annotations, Tail(parts))

data_row(ann, parts, video_name, frame_num) ==
    <<"labeled-data", video_name, image_name(frame_num)>>
        \o ExtendCells(ann[frame_num], parts)

data_rows(ann, parts, video_name, frames) ==
    [i \in 1..Len(frames) |-> data_row(ann, parts, video_name, frames[i])]

\* written: open(csv_file, 'w') and the writerow calls do not raise
create_deeplabcut_csv ==
    /\ pc = "csv"
    /\ LET frames == valid_frames(annotations, frame_range[1], frame_range[2])
       IN  IF frames = <<>>
           THEN /\ StageFailed
                /\ UNCHANGED csv_file
           ELSE \E written \in BOOLEAN :
                   IF written
                   THEN /\ csv_file' =
                              WriteFile(csv_file,
                                  <<scorer_row(Scorer, bodyparts),
                                    bodyparts_row(bodyparts),
                                    coords_row(bodyparts)>>
                                  \o data_rows(annotations, bodyparts,
                                               VideoStem, frames))
                        /\ pc' = "config"
                        /\ UNCHANGED result
                   ELSE /\ StageFailed
                        /\ UNCHANGED csv_file
    /\ UNCHANGED <<log, builtins_input, previous, mode, xml, annotations, bodyparts, video_info,
                   frame_selection, frame_range, gui, extraction, frame_files,
                   config_file, artifacts>>

----------------------------------------------------------------------------
(* create_deeplabcut_config, copy_video_to_project, generate_h5_file,
   create_dataset_summary *)

\* config_data with video_sets keyed by the path of the copy in the project
config_data_by_path(parts, video_filename, current_date) ==
    [Task |-> "BeePoseEstimation", scorer |-> Scorer, date |-> current_date,
     video_sets |-> [v \in {"videos/" \o video_filename} |-> [crop |-> FALSE]],
     bodyparts |-> [i \in DOMAIN parts |-> Text(parts[i])]]

\* config_data, the entries that depend on the run: Task, scorer, date,
\* video_sets and bodyparts, as the f.write calls put them in config.yaml
config_data(parts, video_filename, current_date) ==
    [Task |-> "BeePoseEstimation", scorer |-> Scorer, date |-> current_date,
     video_sets |-> [v \in {video_filename} |-> [crop |-> FALSE]],
     bodyparts |-> [i \in DOMAIN parts |-> Text(parts[i])]]

\* current_date: datetime.now().strftime("%b%d"); written: open(config_file,
\* 'w') and the writes do not raise
create_deeplabcut_config ==
    /\ pc = "config"
    /\ \E written \in BOOLEAN, current_date \in Dates :
          IF written
          THEN /\ config_file' =
                     config_data(bodyparts, video_info["video_file"],
                                 current_date)
               /\ pc' = "copy"
               /\ UNCHANGED result
          ELSE /\ current_date = "Nov06"
               /\ StageFailed
               /\ UNCHANGED config_file
    /\ UNCHANGED <<log, builtins_input, previous, mode, xml, annotations, bodyparts, video_info,
                   frame_selection, frame_range, gui, extraction, frame_files,
                   csv_file, artifacts>>

\* mkdir_ok: videos_dir.mkdir(...) does not raise (it is outside the try);
\* copied: shutil.copy2 does not raise
copy_video_to_project ==
    /\ pc = "copy"
    /\ \E mkdir_ok \in BOOLEAN, copied \in BOOLEAN :
          IF ~mkdir_ok
          THEN /\ ~copied
               /\ StageRaised
               /\ UNCHANGED artifacts
          ELSE IF copied
          THEN /\ artifacts' = artifacts \cup {"videos/" \o VideoName}
               /\ pc' = "h5"
               /\ UNCHANGED result
          ELSE /\ StageFailed
               /\ UNCHANGED artifacts
    /\ UNCHANGED <<log, builtins_input, previous, mode, xml, annotations, bodyparts, video_info,
                   frame_selection, frame_range, gui, extraction, frame_files,
                   csv_file, config_file>>

\* builtins.input = original_input
RestoreInput_skipped(input) == input

\* builtins.input = original_input
RestoreInput(input) == original_input

\* what one call of deeplabcut.convertcsv2h5 does when it does not block
CallOutcomes == {"returns", "raises"}

\* the runs of h5_converter.convert_csv_to_h5_auto that return; imported:
\* import deeplabcut succeeds; calls: what the calls of
\* deeplabcut.convertcsv2h5 it makes do, a call being made when every call
\* before it raised
ConverterRuns ==
    {[imported |-> FALSE, calls |-> <<>>]}
    \cup
    {[imported |-> TRUE, calls |-> c] :
        c \in {<<"returns">>, <<"raises", "returns">>,
               <<"raises", "raises", "returns">>,
               <<"raises", "raises", "raises">>}}

\* h5_converter.convert_csv_to_h5_auto in its own process: its result and
\* builtins.input of that process when it returns
convert_csv_to_h5_auto(imported, calls) ==
    IF ~imported
    THEN [result |-> FALSE, input |-> original_input]
    ELSE LET patched == auto_yes_input
         IN  [result |-> calls[Len(calls)] = "returns",
              input |-> RestoreInput(patched)]

H5File == "CollectedData_" \o Scorer \o ".h5"

\* generate_h5_file leaving the annotation index and the vocabulary empty
\* when deeplabcut cannot be imported
generate_h5_file_releasing ==
    /\ pc = "h5"
    /\ \E imported \in BOOLEAN :
          IF imported
          THEN /\ builtins_input' =
                      [builtins_input EXCEPT !.pipeline = auto_yes_input]
               /\ pc' = "h5_patched"
               /\ UNCHANGED <<annotations, bodyparts>>
          ELSE /\ pc' = "summary"
               /\ annotations' = EmptyDict
               /\ bodyparts' = <<>>
               /\ UNCHANGED builtins_input
    /\ UNCHANGED <<log, previous, mode, xml, result, video_info,
                   frame_selection, frame_range, gui, extraction, frame_files,
                   csv_file, config_file, artifacts>>

\* generate_h5_file up to the call of Method 1; imported: import deeplabcut
\* succeeds, else the function returns True with a warning
generate_h5_file ==
    /\ pc = "h5"
    /\ \E imported \in BOOLEAN :
          IF imported
          THEN /\ builtins_input' =
                      [builtins_input EXCEPT !.pipeline = auto_yes_input]
               /\ pc' = "h5_patched"
          ELSE /\ pc' = "summary"
               /\ UNCHANGED builtins_input
    /\ UNCHANGED <<log, previous, mode, xml, result, annotations, bodyparts,
                   video_info, frame_selection, frame_range, gui, extraction,
                   frame_files, csv_file, config_file, artifacts>>

\* the exit of the inline script run by subprocess.run(..., timeout=120)
SubprocessResults == {"zero", "nonzero", "timeout"}

\* Method 2: h5_converter.py runs in a child process under timeout=120
\* (timed_out: it is killed before convert_csv_to_h5_auto returns); when it
\* exits with a non-zero code the inline script runs; when no child exits
\* with code 0, Method 3 is entered
SubprocessMethod(restored) ==
    \E timed_out \in BOOLEAN :
       IF timed_out
       THEN /\ builtins_input' =
                   [builtins_input EXCEPT !.pipeline = restored]
            /\ pc' = "h5_batch"
            /\ UNCHANGED artifacts
       ELSE \E run \in ConverterRuns :
               LET child == convert_csv_to_h5_auto(run.imported, run.calls)
               IN  /\ builtins_input' = [pipeline |-> restored,
                                         h5_converter |-> child.input]
                   /\ IF child.result
                      THEN /\ artifacts' = artifacts \cup {H5File}
                           /\ pc' = "summary"
                      ELSE \E inline \in SubprocessResults :
                              IF inline = "zero"
                              THEN /\ \E written \in BOOLEAN :
                                         artifacts' =
                                             IF written
                                             THEN artifacts \cup {H5File}
                                             ELSE artifacts
                                   /\ pc' = "summary"
                              ELSE /\ pc' = "h5_batch"
                                   /\ UNCHANGED artifacts

\* Method 1: deeplabcut.convertcsv2h5, called in this process with
\* builtins.input replaced, returns or raises; builtins.input is restored
\* and, when the call raised, Method 2 follows
convertcsv2h5_patched ==
    /\ pc = "h5_patched"
    /\ \E outcome \in CallOutcomes :
          LET restored == RestoreInput(builtins_input.pipeline)
          IN  IF outcome = "returns"
              THEN /\ builtins_input' =
                          [builtins_input EXCEPT !.pipeline = restored]
                   /\ artifacts' = artifacts \cup {H5File}
                   /\ pc' = "summary"
              ELSE SubprocessMethod(restored)
    /\ UNCHANGED <<log, previous, mode, xml, result, annotations, bodyparts,
                   video_info, frame_selection, frame_range, gui, extraction,
                   frame_files, csv_file, config_file>>

\* Method 3: deeplabcut.convertcsv2h5, called in this process, returns or
\* raises; generate_h5_file returns True either way
convertcsv2h5_batch ==
    /\ pc = "h5_batch"
    /\ \E outcome \in CallOutcomes :
          artifacts' = IF outcome = "returns" THEN artifacts \cup {H5File}
                       ELSE artifacts
    /\ pc' = "summary"
    /\ UNCHANGED <<log, builtins_input, previous, mode, xml, result,
                   annotations, bodyparts, video_info, frame_selection,
                   frame_range, gui, extraction, frame_files, csv_file,
                   config_file>>

\* create_dataset_summary rebasing the window to start at frame 0
create_dataset_summary_rebasing ==
    /\ pc = "summary"
    /\ frame_range' = <<0, frame_range[2] - frame_range[1]>>
    /\ \E written \in BOOLEAN :
          IF written
          THEN /\ artifacts' = artifacts \cup {"dataset_summary.txt"}
               /\ result' = "ok"
               /\ pc' = IF mode = "gui" THEN "completing" ELSE "done"
          ELSE /\ StageRaised
               /\ UNCHANGED artifacts
    /\ UNCHANGED <<log, builtins_input, previous, mode, xml, annotations, bodyparts, video_info,
                   frame_selection, gui, extraction, frame_files,
                   csv_file, config_file>>

\* written: open(summary_file, 'w') and the writes do not raise; nothing in
\* create_dataset_summary catches an exception
create_dataset_summary ==
    /\ pc = "summary"
    /\ \E written \in BOOLEAN :
          IF written
          THEN /\ artifacts' = artifacts \cup {"dataset_summary.txt"}
               /\ result' = "ok"
               /\ pc' = IF mode = "gui" THEN "completing" ELSE "done"
          ELSE /\ StageRaised
               /\ UNCHANGED artifacts
    /\ UNCHANGED <<log, builtins_input, previous, mode, xml, annotations, bodyparts, video_info,
                   frame_selection, frame_range, gui, extraction, frame_files,
                   csv_file, config_file>>

\* _conversion_completed_ui, scheduled by conversion_completed
conversion_completed_ui ==
    /\ mode = "gui"
    /\ pc = "completing"
    /\ gui' = [gui EXCEPT !.convert_button = "normal",
                          !.status = IF result = "ok"
                                     THEN "Conversion completed successfully"
                                     ELSE "Conversion failed"]
    /\ pc' = "done"
    /\ UNCHANGED <<log, builtins_input, previous, mode, xml, result, annotations, bodyparts, video_info,
                   frame_selection, frame_range, extraction, frame_files,
                   csv_file, config_file, artifacts>>

----------------------------------------------------------------------------
(* the GUI log: log_message, check_log_queue *)

MaxMessages == 4

\* two of the lines run_conversion logs
LogMessages == {"Starting CVAT to DeepLabCut conversion...",
                "XML parsing failed"}

\* a queue that hands out the message put last
QueueGet_lifo(q) ==
    [message |-> q[Len(q)], rest |-> SubSeq(q, 1, Len(q) - 1)]

\* queue.Queue is first in, first out
QueueGet(q) == [message |-> Head(q), rest |-> Tail(q)]

\* self.log_queue.put(message), called by the worker thread
log_message ==
    /\ mode = "gui"
    /\ pc = "parse"
    /\ Len(log.sent) < MaxMessages
    /\ \E message \in LogMessages :
          log' = [log EXCEPT !.queue = Append(@, message),
                             !.sent = Append(@, message)]
    /\ UNCHANGED <<builtins_input, previous, mode, xml, pc, result,
                   annotations, bodyparts, video_info, frame_selection,
                   frame_range, gui, extraction, frame_files, csv_file,
                   config_file, artifacts>>

\* the Tk timer set by root.after(100, self.check_log_queue) fires
check_log_queue ==
    /\ mode = "gui"
    /\ log.poller = "waiting"
    /\ log' = [log EXCEPT !.poller = "polling"]
    /\ UNCHANGED <<builtins_input, previous, mode, xml, pc, result,
                   annotations, bodyparts, video_info, frame_selection,
                   frame_range, gui, extraction, frame_files, csv_file,
                   config_file, artifacts>>

\* message = self.log_queue.get_nowait() returns a message
log_queue_get_nowait ==
    /\ log.poller = "polling"
    /\ log.queue # <<>>
    /\ log' = [log EXCEPT !.message = QueueGet(log.queue).message,
                          !.queue = QueueGet(log.queue).rest,
                          !.poller = "inserting"]
    /\ UNCHANGED <<builtins_input, previous, mode, xml, pc, result,
                   annotations, bodyparts, video_info, frame_selection,
                   frame_range, gui, extraction, frame_files, csv_file,
                   config_file, artifacts>>

\* self.log_text.insert(tk.END, message + "\n"), then the loop goes on
log_text_insert ==
    /\ log.poller = "inserting"
    /\ log' = [log EXCEPT !.text = Append(@, log.message),
                          !.message = "",
                          !.poller = "polling"]
    /\ UNCHANGED <<builtins_input, previous, mode, xml, pc, result,
                   annotations, bodyparts, video_info, frame_selection,
                   frame_range, gui, extraction, frame_files, csv_file,
                   config_file, artifacts>>

\* get_nowait() raises queue.Empty: the callback ends and the finally
\* clause sets the timer again
log_queue_Empty ==
    /\ log.poller = "polling"
    /\ log.queue = <<>>
    /\ log' = [log EXCEPT !.poller = "waiting"]
    /\ UNCHANGED <<builtins_input, previous, mode, xml, pc, result,
                   annotations, bodyparts, video_info, frame_selection,
                   frame_range, gui, extraction, frame_files, csv_file,
                   config_file, artifacts>>

----------------------------------------------------------------------------
\* after a run that completed, the program is started again on the same
\* inputs and output directory: main() builds a new pipeline object, the
\* project tree is as the previous run left it
rerun ==
    /\ mode = "cli"
    /\ pc = "done"
    /\ result = "ok"
    /\ previous = NoRun
    /\ previous' = [result |-> result, video_info |-> video_info,
                    frame_selection |-> frame_selection,
                    frame_range |-> frame_range,
                    csv_file |-> csv_file, config_file |-> config_file]
    /\ pc' = "parse"
    /\ result' = "none"
    /\ annotations' = EmptyDict
    /\ bodyparts' = <<>>
    /\ video_info' = EmptyDict
    /\ frame_selection' = "full"
    /\ frame_range' = <<0, -1>>
    /\ extraction' = NoExtraction
    /\ UNCHANGED <<log, builtins_input, mode, xml, gui, frame_files,
                   csv_file, config_file, artifacts>>

\* what run_pipeline prints after create_dataset_summary returned
run_pipeline_report ==
    <<"Conversion pipeline completed!", "Output directory: project",
      "Generated file structure:", "project/", "labeled-data/",
      VideoStem \o "/", "CollectedData_" \o Scorer \o ".csv",
      "CollectedData_" \o Scorer \o ".h5", "frame_*.png", "videos/",
      VideoName, "config.yaml", "dataset_summary.txt",
      "You can now use this directory as a DeepLabCut project for training!">>

\* what run_conversion logs after create_dataset_summary returned
run_conversion_report ==
    <<"Conversion completed successfully!", "Output directory: project">>

\* the end-of-run report of the run, once it succeeded
end_of_run_report ==
    IF result # "ok" THEN <<>>
    ELSE IF mode = "cli" THEN run_pipeline_report
    ELSE run_conversion_report

\* the warnings generate_h5_file prints when no h5 file was generated
ConverterWarnings ==
    {"Warning: H5 file generation encountered interactive prompt",
     "Warning: Cannot import deeplabcut, skipping h5 file generation",
     "h5 file generation failed"}

----------------------------------------------------------------------------
(* Specifications *)

Init == InitWith(RunExports, {"cli", "gui"})

Next ==
    \/ start_conversion
    \/ parse_cvat_xml
    \/ get_video_info
    \/ interactive_frame_selection
    \/ set_frame_selection
    \/ extract_frames
    \/ create_deeplabcut_csv
    \/ create_deeplabcut_config
    \/ copy_video_to_project
    \/ generate_h5_file
    \/ convertcsv2h5_patched
    \/ convertcsv2h5_batch
    \/ create_dataset_summary
    \/ conversion_completed_ui

Spec == Init /\ [][Next]_vars

\* two runs, one after the other, on exports of one Queen box track on
\* frame 0 and one Worker point track on frame 1
TwiceTracks ==
    {[label |-> Queen, points |-> NoShape,
      box |-> <<[frame |-> 0, xtl |-> 1, ytl |-> 2, xbr |-> 4, ybr |-> 8]>>],
     [label |-> Worker, box |-> NoShape,
      points |-> <<[frame |-> 1, points |-> <<12, 8>>]>>]}

TwiceExports ==
    [status : {"ok"}, size : MetaSizes \ {NoMeta},
     tracks : SeqUpTo(TwiceTracks, MaxTracks)]
    \cup BrokenExports

InitTwice == InitWith(TwiceExports, {"cli"})

\* main() run twice
NextTwice ==
    \/ parse_cvat_xml
    \/ get_video_info
    \/ interactive_frame_selection
    \/ extract_frames
    \/ create_deeplabcut_csv
    \/ create_deeplabcut_config
    \/ copy_video_to_project
    \/ generate_h5_file
    \/ convertcsv2h5_patched
    \/ convertcsv2h5_batch
    \/ create_dataset_summary
    \/ rerun

SpecTwice == InitTwice /\ [][NextTwice]_vars

\* the runs of Spec on the exports of TwiceExports, under the progress the
\* program itself guarantees: a stage that is entered completes, the Tk
\* main loop runs a scheduled callback, a child process is bounded by its
\* timeout. Nothing bounds a call of deeplabcut.convertcsv2h5 made in the
\* pipeline's own process, and nothing makes the user answer a prompt
\* validly, so these steps carry no fairness.
InitLive == InitWith(TwiceExports, {"cli", "gui"})

Fairness ==
    /\ WF_vars(parse_cvat_xml)
    /\ WF_vars(get_video_info)
    /\ WF_vars(set_frame_selection)
    /\ WF_vars(extract_frames)
    /\ WF_vars(create_deeplabcut_csv)
    /\ WF_vars(create_deeplabcut_config)
    /\ WF_vars(copy_video_to_project)
    /\ WF_vars(generate_h5_file)
    /\ WF_vars(create_dataset_summary)
    /\ WF_vars(conversion_completed_ui)

SpecLive == InitLive /\ [][Next]_vars /\ Fairness

\* the GUI's log while the worker thread of a conversion runs: the worker
\* puts up to MaxMessages lines on the queue, in any interleaving with the
\* timer callback of the UI thread
InitLog == InitWith(TwiceExports, {"gui"})

NextLog ==
    \/ start_conversion
    \/ log_message
    \/ check_log_queue
    \/ log_queue_get_nowait
    \/ log_text_insert
    \/ log_queue_Empty

SpecLog == InitLog /\ [][NextLog]_vars

\* parse_cvat_xml alone, over every export
InitParse == InitWith(Exports, {"cli"})

SpecParse == InitParse /\ [][parse_cvat_xml]_vars

----------------------------------------------------------------------------
(* Properties *)

\* parse_cvat_xml returned True
Parsed == xml.status = "ok" /\ pc \notin {"idle", "parse"}

\* get_video_info returned True
Probed == "video_file" \in DOMAIN video_info

DataRows == {i \in DOMAIN csv_file : i > 3}

InWindow(f) == frame_range[1] <= f /\ f <= frame_range[2]

\* C1: when extract_frames and create_deeplabcut_csv both succeeded, every
\* data row of the annotation table names an image extract_frames wrote.
C1_RowsNameWrittenImages ==
    (extraction.success /\ csv_file # NoFile) =>
        \A i \in DataRows : csv_file[i][3] \in extraction.written

\* C2: under the "range" policy the window extraction and table assembly
\* use satisfies 0 <= start <= end <= total_frames - 1; other bounds are
\* rejected before any stage uses them, from the prompt and from the GUI
\* (stated for the videos whose probed frame count is positive).
C2_RangeWithinVideo ==
    (/\ frame_selection = "range"
     /\ extraction.ran
     /\ video_info["total_frames"] > 0) =>
        /\ 0 <= frame_range[1]
        /\ frame_range[1] <= frame_range[2]
        /\ frame_range[2] <= video_info["total_frames"] - 1

\* C3: under the "full" policy the window a stage consumes is exactly
\* [0, total_frames - 1] of the probed count and is a valid inclusive window.
C3_FullWindowValid ==
    (frame_selection = "full" /\ extraction.ran) =>
        /\ frame_range = <<0, video_info["total_frames"] - 1>>
        /\ 0 <= frame_range[1]
        /\ frame_range[1] <= frame_range[2]

\* C4: get_video_info never returns success with total_frames = 0 (nor for
\* a video that cannot be opened).
C4_ProbeRejectsEmptyVideo == Probed => video_info["total_frames"] > 0

\* C5: a successful extract_frames wrote exactly the images
\* frame_<i, 4 digits>.png with start <= i <= end and i below the number of
\* frames the decoder yields.
C5_WrittenIsWindowOfDecoded ==
    extraction.success =>
        extraction.written =
            {frame_filename(i) : i \in {j \in 0..(extraction.decoded - 1) :
                                            InWindow(j)}}

\* C6: when the decoder runs out before range.end, the extracted count
\* extract_frames records is the number of in-window frames decoded and
\* persisted, which is fewer than end - start + 1.
C6_CountIsPersisted ==
    (extraction.success /\ extraction.decoded <= frame_range[2]) =>
        /\ extraction.extracted_count = Cardinality(extraction.written)
        /\ extraction.extracted_count < frame_range[2] - frame_range[1] + 1

\* C7: when an in-window frame could not be written to disk, extract_frames
\* reports failure and the run halts before table assembly.
C7_WriteFailureIsFatal ==
    extraction.lost # {} => (~extraction.success /\ result = "failed")

\* every points element carries at least the x,y pair of the export format
ValidExport(x) ==
    /\ x.status = "ok"
    /\ \A i \in DOMAIN x.tracks : \A j \in DOMAIN x.tracks[i].points :
          Len(x.tracks[i].points[j].points) >= 2

ExpectedVocabulary(x) ==
    {x.tracks[i].label \o CenterSuffix :
        i \in {k \in DOMAIN x.tracks : x.tracks[k].box # <<>>}}
    \cup
    {x.tracks[i].label :
        i \in {k \in DOMAIN x.tracks : x.tracks[k].points # <<>>}}

StrictlyIncreasing(names) ==
    \A i \in 1..(Len(names) - 1) : StrLess(names[i], names[i + 1])

\* C8: after a successful parse of a valid export, bodyparts is the
\* lexicographically sorted, duplicate-free list of <label>_center of every
\* track with a box and <label> of every track with a points element.
C8_VocabularyIsSortedUnion ==
    (Parsed /\ ValidExport(xml)) =>
        /\ StrictlyIncreasing(bodyparts)
        /\ Range(bodyparts) = ExpectedVocabulary(xml)

C8_Witness ==
    /\ Parsed
    /\ ValidExport(xml)
    /\ Len(xml.tracks) = 2
    /\ xml.tracks[1].label = Worker /\ xml.tracks[2].label = Worker
    /\ \A i \in 1..2 : xml.tracks[i].box # <<>> /\ xml.tracks[i].points # <<>>
    /\ bodyparts = <<Worker, Worker \o CenterSuffix>>

\* the <<frame, keypoint name>> pairs the shapes of an export contribute
Contributions(x) ==
    UNION {
        {<<x.tracks[i].box[j].frame, x.tracks[i].label \o CenterSuffix>> :
            j \in DOMAIN x.tracks[i].box}
        \cup
        {<<x.tracks[i].points[j].frame, x.tracks[i].label>> :
            j \in {k \in DOMAIN x.tracks[i].points :
                      Len(x.tracks[i].points[k].points) >= 2}} :
        i \in DOMAIN x.tracks}

QueenAndWorkerOn(f) ==
    {<<f, Queen \o CenterSuffix>>, <<f, Worker>>} \subseteq Contributions(xml)

\* C9: the annotation of a frame holds the keypoint of every track that
\* contributes to it; a box track Queen and a point track Worker on one
\* frame give bodyparts [Queen_center, Worker] and a table row whose four
\* coordinate columns are all populated.
C9_FrameAccumulatesTracks ==
    Parsed =>
        /\ \A c \in Contributions(xml) :
              /\ c[1] \in DOMAIN annotations
              /\ c[2] \in DOMAIN annotations[c[1]]
        /\ \A f \in RunFrames :
              QueenAndWorkerOn(f) =>
                 /\ bodyparts = <<Queen \o CenterSuffix, Worker>>
                 /\ (csv_file # NoFile /\ InWindow(f)) =>
                       \E i \in DataRows :
                          /\ csv_file[i][3] = image_name(f)
                          /\ Len(csv_file[i]) = 7
                          /\ \A k \in 4..7 : csv_file[i][k] # NanText

C9_Witness ==
    /\ csv_file # NoFile
    /\ Len(xml.tracks) = 2
    /\ xml.tracks[1].label = Queen /\ xml.tracks[2].label = Worker
    /\ \E f \in RunFrames : QueenAndWorkerOn(f) /\ InWindow(f)
    /\ \E i \in DataRows :
          csv_file[i] = <<"labeled-data", "video", "frame_0001.png",
                          "2.5", "5.0", "12.0", "8.0">>

\* the frames of the window that hold at least one keypoint coordinate
AnnotatedInWindow ==
    {f \in DOMAIN annotations : InWindow(f) /\ annotations[f] # EmptyDict}

\* C10: the table holds exactly one data row per frame of the window that
\* has at least one keypoint coordinate; a frame whose records carried no
\* usable coordinate produces no row.
C10_OneRowPerAnnotatedFrame ==
    csv_file # NoFile =>
        /\ \A f \in AnnotatedInWindow :
              Cardinality({i \in DataRows : csv_file[i][3] = image_name(f)}) = 1
        /\ \A i \in DataRows :
              \E f \in AnnotatedInWindow : csv_file[i][3] = image_name(f)

\* the text of the coordinate pairs the shapes of an export give a keypoint
\* on a frame: the box midpoint for <label>_center, the first two
\* components of the points attribute for <label>
ExpectedCells(x, f, name) ==
    UNION {
        {<<"2.5", "5.0">> :
            j \in {k \in DOMAIN x.tracks[i].box :
                      /\ x.tracks[i].box[k].frame = f
                      /\ x.tracks[i].label \o CenterSuffix = name}}
        \cup
        {<<"12.0", "8.0">> :
            j \in {k \in DOMAIN x.tracks[i].points :
                      /\ x.tracks[i].points[k].frame = f
                      /\ x.tracks[i].label = name
                      /\ Len(x.tracks[i].points[k].points) >= 2}} :
        i \in DOMAIN x.tracks}

\* the export is one track Worker whose only shape is the point (12, 8) on f
SingleWorkerPoint(f) ==
    /\ xml.status = "ok"
    /\ xml.tracks =
           <<[label |-> Worker, box |-> NoShape,
              points |-> <<[frame |-> f, points |-> <<12, 8>>]>>]>>

\* C11: each data row holds, for every vocabulary keypoint in vocabulary
\* order, the frame's (x, y) pair when the keypoint is annotated on the frame
\* and the not-a-number marker in both columns otherwise, never (0, 0); a
\* single point track on frame f under the full policy gives the one data
\* row labeled-data,<video>,frame_<f>.png,12.0,8.0.
C11_RowsHoldPairsOrNan ==
    csv_file # NoFile =>
        /\ \A i \in DataRows : \A f \in RunFrames :
              csv_file[i][3] = image_name(f) =>
                 /\ Len(csv_file[i]) = 3 + 2 * Len(bodyparts)
                 /\ \A k \in DOMAIN bodyparts :
                       LET cells == <<csv_file[i][2 + 2 * k],
                                      csv_file[i][3 + 2 * k]>>
                       IN  IF <<f, bodyparts[k]>> \in Contributions(xml)
                           THEN cells \in ExpectedCells(xml, f, bodyparts[k])
                           ELSE cells = <<NanText, NanText>>
        /\ \A f \in RunFrames :
              (SingleWorkerPoint(f) /\ frame_selection = "full") =>
                 /\ bodyparts = <<Worker>>
                 /\ DataRows = {4}
                 /\ csv_file[4] = <<"labeled-data", VideoStem,
                                    image_name(f), "12.0", "8.0">>

\* a row with a populated pair and a missing pair
C11_Witness ==
    /\ csv_file # NoFile
    /\ bodyparts = <<Queen \o CenterSuffix, Worker>>
    /\ \E i \in DataRows :
          csv_file[i] = <<"labeled-data", "video", "frame_0002.png",
                          "nan", "nan", "12.0", "8.0">>
    /\ \E i \in DataRows :
          csv_file[i] = <<"labeled-data", "video", "frame_0000.png",
                          "2.5", "5.0", "nan", "nan">>

\* C12: the table starts with the three header rows scorer / bodyparts /
\* coords of 3 + 2 * |vocabulary| fields each; the bodyparts row lists every
\* keypoint twice in vocabulary order, the coords row alternates x, y, and
\* every data row has as many fields as the header rows.
C12_ThreeTierHeader ==
    csv_file # NoFile =>
        LET width == 3 + 2 * Len(bodyparts)
        IN  /\ Len(csv_file) >= 3
            /\ \A i \in DOMAIN csv_file : Len(csv_file[i]) = width
            /\ SubSeq(csv_file[1], 1, 3) = <<"scorer", "", "">>
            /\ SubSeq(csv_file[2], 1, 3) = <<"bodyparts", "", "">>
            /\ SubSeq(csv_file[3], 1, 3) = <<"coords", "", "">>
            /\ \A i \in DataRows : csv_file[i][1] = "labeled-data"
            /\ \A k \in DOMAIN bodyparts :
                  /\ csv_file[1][2 + 2 * k] = Scorer
                  /\ csv_file[1][3 + 2 * k] = Scorer
                  /\ csv_file[2][2 + 2 * k] = Text(bodyparts[k])
                  /\ csv_file[2][3 + 2 * k] = Text(bodyparts[k])
                  /\ csv_file[3][2 + 2 * k] = "x"
                  /\ csv_file[3][3 + 2 * k] = "y"

C12_Witness ==
    /\ Len(csv_file) = 5
    /\ csv_file[1] = <<"scorer", "", "", "manual", "manual", "manual",
                       "manual">>
    /\ csv_file[2] = <<"bodyparts", "", "", "Queen_center", "Queen_center",
                       "Worker", "Worker">>
    /\ csv_file[3] = <<"coords", "", "", "x", "y", "x", "y">>

\* create_deeplabcut_csv has run
TableAssembled == extraction.success /\ pc \notin {"extract", "csv"}

\* C13: when the window contains no annotated frame, table assembly reports
\* failure, writes no table and the run halts before the descriptor is
\* written; a window with start = end yields exactly one row if that frame
\* has annotations and an assembly failure otherwise.
C13_EmptyWindowFailsAssembly ==
    TableAssembled =>
        /\ AnnotatedInWindow = {} =>
              /\ csv_file = NoFile
              /\ config_file = NoFile
              /\ result = "failed"
        /\ (frame_range[1] = frame_range[2] /\ csv_file # NoFile) =>
              /\ AnnotatedInWindow = {frame_range[1]}
              /\ Cardinality(DataRows) = 1

\* the stages whose failure ends the run
FatalStages == {"parse", "probe", "extract", "csv", "config", "copy"}

Halted == {"completing", "done"}

VideoCopied == ("videos/" \o VideoName) \in artifacts

\* C14: the run executes parse, probe, window selection, extract, table,
\* descriptor, video copy in this order; as soon as one of them fails no
\* later stage is executed and the run reports failure, from run_pipeline
\* and from the GUI's run_conversion.
C14_StagesInOrderHaltOnFailure ==
    [][/\ pc \in FatalStages =>
             \/ pc' = NextStage[pc] /\ result' = "none"
             \/ pc' \in Halted /\ result' \in {"failed", "raised"}
       /\ pc \in {"select", "range"} =>
             \/ pc' \in {"select", "range", "extract"} /\ result' = "none"
             \/ pc' \in Halted /\ result' \in {"failed", "raised"}
       /\ result \in {"failed", "raised"} =>
             /\ pc' = "done"
             /\ gui'.status = "Conversion failed"
             /\ UNCHANGED <<result, annotations, bodyparts, video_info,
                            frame_selection, frame_range, extraction,
                            frame_files, csv_file, config_file, artifacts>>
       /\ config_file' # NoFile => csv_file' # NoFile
       /\ VideoCopied' => config_file' # NoFile
       /\ csv_file' # NoFile => extraction'.success
      ]_vars

\* the descriptor write failed after the table was written: the video was
\* never copied and the GUI shows the failure
C14_Witness ==
    /\ mode = "gui"
    /\ pc = "done"
    /\ result = "failed"
    /\ csv_file # NoFile
    /\ config_file = NoFile
    /\ artifacts = {}
    /\ gui.status = "Conversion failed"

\* C15: a failure, timeout or absence of the converter never makes the run
\* fail: once table, descriptor and video copy succeeded the run goes
\* through generate_h5_file and reports overall success.
C15_ConverterFailureIsNotFatal ==
    VideoCopied =>
        \/ pc \in {"h5", "h5_patched", "h5_batch", "summary"} /\ result = "none"
        \/ pc \in Halted /\ result = "ok"

\* C16: when create_dataset_summary cannot write its file the run still
\* completes and reports overall success.
C16_SummaryFailureIsNotFatal ==
    (VideoCopied /\ pc \in Halted /\ "dataset_summary.txt" \notin artifacts) =>
        /\ result = "ok"
        /\ (mode = "gui" /\ pc = "done") =>
              gui.status = "Conversion completed successfully"

\* the second run has written its table and its descriptor
SecondRunWrote ==
    /\ previous # NoRun
    /\ pc \in {"copy", "h5", "h5_patched", "h5_batch", "summary"}

\* the second run probed the same video and fixed the same window
SameInputs ==
    /\ video_info = previous.video_info
    /\ frame_selection = previous.frame_selection
    /\ frame_range = previous.frame_range

\* C17 as stated: a second run with the same export, video, window choice,
\* project name, scorer and output directory leaves the same annotation
\* table content and the same descriptor content as the first run.
C17_SecondRunIdentical ==
    (SecondRunWrote /\ SameInputs) =>
        /\ csv_file = previous.csv_file
        /\ config_file = previous.config_file

\* C17: a second run with the same export, video, window choice, project
\* name, scorer and output directory leaves the same annotation table
\* content, and the same descriptor content but for the date field, which
\* is the day of the run.
C17_SecondRunIdenticalButDate ==
    (SecondRunWrote /\ SameInputs) =>
        /\ csv_file = previous.csv_file
        /\ [config_file EXCEPT !.date = previous.config_file.date]
               = previous.config_file

\* a second run on another day, over a range window with a data row
C17_Witness ==
    /\ SecondRunWrote
    /\ SameInputs
    /\ frame_selection = "range"
    /\ Len(csv_file) > 3
    /\ config_file.date # previous.config_file.date

\* the positions of a run after window selection
AfterSelection ==
    {"extract", "csv", "config", "copy", "h5", "h5_patched", "h5_batch",
     "summary", "completing", "done"}

\* C18: once window selection fixed the window, no later stage writes
\* frame_range or frame_selection, and extraction and table assembly used
\* that same (start, end): every image written and every data row lies in it.
C18_WindowFixedAfterSelection ==
    [][/\ pc \in AfterSelection =>
             UNCHANGED <<frame_selection, frame_range>>
       /\ \A f \in RunFrames :
             (\/ frame_filename(f) \in extraction'.written
              \/ \E i \in DOMAIN csv_file' :
                    i > 3 /\ csv_file'[i][3] = image_name(f)) =>
                 (frame_range'[1] <= f /\ f <= frame_range'[2])
      ]_vars

\* a completed run over the range window [1, 2] that wrote both images and
\* a row
C18_Witness ==
    /\ pc = "done"
    /\ result = "ok"
    /\ frame_selection = "range"
    /\ frame_range = <<1, 2>>
    /\ extraction.written = {"frame_0001.png", "frame_0002.png"}
    /\ Len(csv_file) > 3

\* C19: after parse_cvat_xml completed, no later stage modifies the
\* keypoint vocabulary or the annotation index.
C19_ParsedStateIsReadOnly ==
    [][pc \notin {"idle", "parse"} => UNCHANGED <<annotations, bodyparts>>
      ]_vars

\* a completed run that still holds a two-keypoint vocabulary and two
\* annotated frames
C19_Witness ==
    /\ pc = "done"
    /\ result = "ok"
    /\ Len(bodyparts) = 2
    /\ Cardinality(DOMAIN annotations) = 2
    /\ "dataset_summary.txt" \in artifacts

\* C20: the project tree only grows: no step of a run, failed or not,
\* removes a frame image, the annotation table, the descriptor, the copied
\* video or the summary that is present.
C20_ProjectTreeOnlyGrows ==
    [][/\ frame_files \subseteq frame_files'
       /\ artifacts \subseteq artifacts'
       /\ csv_file # NoFile => csv_file' # NoFile
       /\ config_file # NoFile => config_file' # NoFile
      ]_vars

\* a second run that failed at extraction, on a tree that holds what the
\* first run wrote
C20_Witness ==
    /\ previous # NoRun
    /\ pc = "done"
    /\ result = "failed"
    /\ extraction.ran /\ ~extraction.success
    /\ Cardinality(frame_files) = 2
    /\ csv_file # NoFile
    /\ config_file # NoFile
    /\ {"videos/video.mp4", "dataset_summary.txt"} \subseteq artifacts

\* C21: every non-fatal condition of a run is accumulated as a warning and
\* the end-of-run report of a successful run enumerates it: a successful run
\* in which the converter produced no h5 file reports a converter warning.
C21_ReportEnumeratesWarnings ==
    (result = "ok" /\ H5File \notin artifacts) =>
        \E i \in DOMAIN end_of_run_report :
           end_of_run_report[i] \in ConverterWarnings

\* the descriptor of this run is written
DescriptorWritten == config_file # NoFile /\ previous = NoRun

\* C22: the descriptor lists as bodyparts the parsed keypoint vocabulary in
\* the same order, and its video_sets holds exactly one entry, keyed by the
\* source video's filename and mapped to crop: false.
C22_DescriptorListsVocabulary ==
    DescriptorWritten =>
        /\ DOMAIN config_file.bodyparts = DOMAIN bodyparts
        /\ \A i \in DOMAIN bodyparts :
              config_file.bodyparts[i] = Text(bodyparts[i])
        /\ ValidExport(xml) =>
              Len(config_file.bodyparts) = Cardinality(ExpectedVocabulary(xml))
        /\ DOMAIN config_file.video_sets = {VideoName}
        /\ config_file.video_sets[VideoName] = [crop |-> FALSE]

C22_Witness ==
    /\ DescriptorWritten
    /\ config_file.bodyparts = <<"Queen_center", "Worker">>
    /\ config_file.video_sets["video.mp4"].crop = FALSE
    /\ VideoCopied

\* C23: the converter call is bounded, so every run that reaches the
\* converter stage eventually finishes.
C23_ConverterStageTerminates == (pc = "h5") ~> (pc = "done")

\* C24: extract_frames never gets more than end + 1 frames from
\* cap.read(), whatever the video holds and whatever the window's start.
C24_ReadsAtMostEndPlusOne ==
    extraction.ran => extraction.reads <= frame_range[2] + 1

\* C25: in the GUI a worker thread is started at most once per conversion:
\* from the start of the worker until the completion callback has run the
\* convert button is disabled, so that no second worker can be started
\* while stages execute.
WorkerActive == mode = "gui" /\ pc \notin {"idle", "done"}

C25_OneConversionAtATime ==
    /\ gui.threads <= 1
    /\ WorkerActive => (gui.threads = 1 /\ gui.convert_button = "disabled")
    /\ WorkerActive => ~ENABLED start_conversion

C25_Witness ==
    /\ mode = "gui"
    /\ pc = "h5_patched"
    /\ gui.threads = 1
    /\ gui.convert_button = "disabled"
    /\ gui.status = "Converting..."

\* C26: every conversion started in the GUI eventually signals completion:
\* the convert button is enabled again and the status ends as completed
\* or failed.
C26_ConversionCompletes ==
    (mode = "gui" /\ pc = "parse") ~>
        /\ pc = "done"
        /\ gui.convert_button = "normal"
        /\ gui.status \in {"Conversion completed successfully",
                           "Conversion failed"}

\* C27: the lines the worker thread puts on the log queue are shown by the
\* UI thread once each and in the order of the puts, under every
\* interleaving of log_message and check_log_queue: what is shown, then the
\* line being inserted, then what waits in the queue, is what was put.
LogHeld == IF log.poller = "inserting" THEN <<log.message>> ELSE <<>>

C27_LogShownOnceInOrder == log.text \o LogHeld \o log.queue = log.sent

C27_Witness ==
    /\ log.text = <<"Starting CVAT to DeepLabCut conversion...",
                    "XML parsing failed", "XML parsing failed">>
    /\ log.poller = "inserting"
    /\ log.message = "Starting CVAT to DeepLabCut conversion..."
    /\ log.queue = <<>>
    /\ Len(log.sent) = 4

\* C28: builtins.input is the auto-affirm replacement only while the
\* converter call of Method 1 runs: once that call has returned or raised,
\* in generate_h5_file and in h5_converter.convert_csv_to_h5_auto, it is
\* the original function again.
C28_InputRestored ==
    /\ pc # "h5_patched" => builtins_input.pipeline = original_input
    /\ pc = "h5_patched" => builtins_input.pipeline = auto_yes_input
    /\ builtins_input.h5_converter = original_input

C28_Witness ==
    /\ pc = "h5_batch"
    /\ builtins_input.pipeline = original_input
    /\ builtins_input.h5_converter = original_input

\* C29: the interactive prompt returns only with a valid window: an input
\* that is not accepted leads to a new prompt with frame_range unchanged,
\* and when the prompt returns the window satisfies
\* 0 <= start <= end <= total_frames - 1.
Prompting == mode = "cli" /\ pc \in {"select", "range"}

C29_PromptReturnsValidWindow ==
    [][Prompting =>
          /\ pc' \in {"select", "range"} => frame_range' = frame_range
          /\ pc' = "extract" =>
                /\ 0 <= frame_range'[1]
                /\ frame_range'[1] <= frame_range'[2]
                /\ frame_range'[2] <= video_info["total_frames"] - 1]_vars

\* C30: a parse_cvat_xml call that reports failure (malformed XML, missing
\* file) leaves the pipeline object as it was before the call:
\* annotations, bodyparts, video_info, frame_range and frame_selection are
\* unchanged.
C30_FailedParseChangesNothing ==
    [][(pc = "parse" /\ xml.status # "ok") =>
          /\ result' = "failed"
          /\ UNCHANGED <<annotations, bodyparts, video_info, frame_range,
                         frame_selection>>]_vars

C30_Witness ==
    /\ xml.status = "malformed"
    /\ result = "failed"
    /\ pc \in {"done", "completing"}
    /\ annotations = EmptyDict
    /\ bodyparts = <<>>
    /\ video_info = EmptyDict
    /\ frame_range = <<0, -1>>

====
